---- MODULE Spec2Model ----
(***************************************************************************)
(* Model of gotcha, an HTTP message queue service backed by MongoDB.       *)
(*                                                                         *)
(* The store (three collections: project, queue, message) is the only      *)
(* shared state.  Every HTTP request runs in its own goroutine; a handler  *)
(* is a sequence of store calls, and each store call is one atomic step.   *)
(* Any store call may fail (lost connection).  Time is in seconds.         *)
(***************************************************************************)
EXTENDS Integers, Sequences, FiniteSets, TLC

(***************************************************************************)
(* Bounds of the model                                                     *)
(***************************************************************************)
MaxTicks == 2          \* the clock advances at most this many times
MaxIds == 5            \* object ids handed out by bson.NewObjectId
MaxRequests == 3       \* requests started in one behaviour

Clients == {"c1", "c2", "c3"}      \* concurrent requests in flight
TickSeconds == {10}                \* the clock advances by ten seconds
ProjectNames == {"p"}
QueueNames == {"q1", "q2"}
Bodies == {"a"}

(***************************************************************************)
(* Program constants                                                       *)
(***************************************************************************)
MaxQueuesPerProject == 100000
MaxEnqueueCount == 100
MaxLeaseCount == 100
DefaultMessageTimeout == 60
MinMessageTimeout == 10
MaxMessageTimeout == 86400
DefaultMessageExpiry == 604800
MinMessageExpiry == 60
MaxMessageExpiry == 2592000
\* The zero time.Time of a message that was never leased: before every clock
\* value and every lease deadline the model can write.
ZeroTime == 0 - 1000000

VARIABLES
  clock,      \* time.Now(), in seconds
  nextId,     \* the next id bson.NewObjectId() hands out
  started,    \* number of requests started so far
  projects,   \* collection "project"
  queues,     \* collection "queue"
  messages,   \* collection "message"
  pc,         \* per client: the position of its request's handler
  req,        \* per client: the request it sent
  loc,        \* per client: the handler's local variables
  resp        \* per client: the response written so far

vars == <<clock, nextId, started, projects, queues, messages, pc, req, loc, resp>>
store == <<projects, queues, messages>>

(***************************************************************************)
(* Values                                                                  *)
(***************************************************************************)
NoDoc == [id |-> 0]
NoReq == [kind |-> "none", project |-> "", queue |-> "", count |-> <<"nil">>,
          timeout |-> <<"nil">>, form |-> "ok", items |-> <<>>, ids |-> <<>>]
NoLoc == [p |-> NoDoc, q |-> NoDoc, now |-> 0, count |-> 0, timeout |-> 0,
          i |-> 0, res |-> <<>>, m |-> NoDoc, qs |-> <<>>]
NoResp == [code |-> 0, body |-> <<>>, writes |-> 0, ids |-> <<>>, at |-> 0]

\* A form value holding a number: absent, not a number, or an integer.
Nil == <<"nil">>
Bad == <<"bad">>
Num(n) == <<"int", n>>

Range(s) == {s[k] : k \in 1..Len(s)}
Min(a, b) == IF a < b THEN a ELSE b

Aborted == 0 - 1     \* the handler panicked: net/http drops the connection

(***************************************************************************)
(* Store adapter: queries over the collections                             *)
(***************************************************************************)
\* GetOne("project", {name})
ProjectsNamed(name) == {p \in projects : p.name = name}
\* GetOne("queue", {project, name})
QueuesNamed(p, name) == {q \in queues : q.project = p.id /\ q.name = name}
\* Get / Count ("queue", {project})
QueuesOf(pid) == {q \in queues : q.project = pid}
\* Count / Destroy ("message", {project, queue})
MessagesOf(q) == {m \in messages : m.project = q.project /\ m.queue = q.id}
\* GetId(col, id)
WithId(col, id) == {d \in col : d.id = id}

\* (mutant: the filter forgets the queue)
LeaseFilterAnyQueue(q, now) ==
  {m \in messages : m.project = q.project /\ m.lease < now}
\* (mutant: the filter uses $lte)
LeaseFilterInclusive(q, now) ==
  {m \in messages : m.project = q.project /\ m.queue = q.id /\ m.lease <= now}
\* (mutant: the filter leaves out the messages past their expiry)
LeaseFilterUnexpired(q, now) ==
  {m \in messages : /\ m.project = q.project /\ m.queue = q.id
                    /\ m.lease < now /\ m.expiresAt >= now}
\* The filter of LeaseMessages: {project, queue, lease_expires_at: {$lt: now}}
LeaseFilter(q, now) ==
  {m \in messages : m.project = q.project /\ m.queue = q.id /\ m.lease < now}
\* (mutant: the sort is ascending)
SortFirstOldest(S) == {m \in S : \A n \in S : m.createdAt <= n.createdAt}
\* Sort("-created_at"): the documents findAndModify may pick, the newest ones
\* (the order among equal created_at is the store's)
SortFirst(S) == {m \in S : \A n \in S : m.createdAt >= n.createdAt}
\* (mutant: the deadline is computed from the clock at each iteration)
LeaseUpdateAtClock(m, now, timeout) == [m EXCEPT !.lease = clock + timeout]
\* The update of LeaseMessages: {$set: {lease_expires_at: now.Add(timeout)}}
LeaseUpdate(m, now, timeout) == [m EXCEPT !.lease = now + timeout]

\* Every order in which a query may return the documents of a set
RECURSIVE Orders(_)
Orders(S) ==
  IF S = {} THEN {<<>>}
  ELSE UNION {{<<d>> \o o : o \in Orders(S \ {d})} : d \in S}

(***************************************************************************)
(* Pure functions of the handlers                                          *)
(***************************************************************************)
\* extractDuration: the duration in seconds, or an error.  The min and max
\* parameters are accepted and never used.
extractDuration(val, min, max, def) ==
  IF val = Nil THEN [err |-> FALSE, d |-> def]
  ELSE IF val = Bad THEN [err |-> TRUE, d |-> 0]
  ELSE [err |-> FALSE, d |-> val[2]]

\* strconv.Atoi of the count parameter ("" means 1)
parseCount(val) ==
  IF val = Nil THEN [err |-> FALSE, n |-> 1]
  ELSE IF val = Bad THEN [err |-> TRUE, n |-> 0]
  ELSE [err |-> FALSE, n |-> val[2]]

\* (mutant: the info carries the queue name as its body)
MessageInfoWrongBody(m, p, q) ==
  [id |-> m.id, body |-> q.name, queue |-> q.name, project |-> p.name,
   createdAt |-> m.createdAt, messageExpiresAt |-> m.expiresAt,
   leaseExpiresAt |-> m.lease]
\* messageInfos: what the API returns for each leased message
MessageInfo(m, p, q) ==
  [id |-> m.id, body |-> m.body, queue |-> q.name, project |-> p.name,
   createdAt |-> m.createdAt, messageExpiresAt |-> m.expiresAt,
   leaseExpiresAt |-> m.lease]
messageInfos(msgs, p, q) == [k \in 1..Len(msgs) |-> MessageInfo(msgs[k], p, q)]

(***************************************************************************)
(* Requests                                                                *)
(***************************************************************************)
Idle(c) == pc[c] \in {"idle", "done"}

\* A client sends request r: a new goroutine starts its handler
Begin(c, r, first) ==
  /\ Idle(c)
  /\ started < MaxRequests
  /\ started' = started + 1
  /\ req' = [req EXCEPT ![c] = r]
  /\ loc' = [loc EXCEPT ![c] = NoLoc]
  /\ resp' = [resp EXCEPT ![c] = NoResp]
  /\ pc' = [pc EXCEPT ![c] = first]
  /\ UNCHANGED <<clock, nextId, store>>

\* The handler of c writes its response and returns
\* (its locals are dropped; the model keeps the project it resolved and the
\* time LeaseMessages read); the logger notes the time
Finish(c, now, code, body, writes, ids) ==
  /\ pc' = [pc EXCEPT ![c] = "done"]
  /\ loc' = [loc EXCEPT ![c] = [NoLoc EXCEPT !.now = now, !.p = loc[c].p]]
  /\ resp' = [resp EXCEPT ![c] = [code |-> code, body |-> body,
                                  writes |-> writes, ids |-> ids, at |-> clock]]

Reply(c, code) == Finish(c, loc[c].now, code, <<>>, 0, <<>>)

\* The first step of each handler once its project (and queue) is resolved
Entry(kind) ==
  CASE kind = "lease" -> "lease_begin"
    [] kind = "enqueue" -> "enq_prepare"
    [] kind = "deleteMessages" -> "del_load"
    [] kind = "deleteProject" -> "dp_list"
    [] kind = "createQueue" -> "cq_count"
    [] kind = "deleteQueue" -> "dq_clear"
    [] kind = "showQueue" -> "sq_count"
    [] kind = "clearQueue" -> "cl_clear"
    [] OTHER -> "done"

ProjectKinds == {"deleteProject", "createQueue"}

\* findProject: LoadProject(name); every error is answered 404
FindProject(c) ==
  /\ pc[c] = "findProject"
  /\ \E ok \in BOOLEAN :
       IF ok /\ ProjectsNamed(req[c].project) # {}
       THEN \E p \in ProjectsNamed(req[c].project) :
              /\ loc' = [loc EXCEPT ![c].p = p]
              /\ pc' = [pc EXCEPT ![c] =
                          IF req[c].kind \in ProjectKinds
                          THEN Entry(req[c].kind) ELSE "findQueue"]
              /\ UNCHANGED resp
       ELSE Reply(c, 404)
  /\ UNCHANGED <<clock, nextId, started, store, req>>

\* (mutant: the queue is looked up by project only)
FindQueueAnyName(c) ==
  /\ pc[c] = "findQueue"
  /\ \E ok \in BOOLEAN :
       IF ok /\ QueuesOf(loc[c].p.id) # {}
       THEN \E q \in QueuesOf(loc[c].p.id) :
              /\ loc' = [loc EXCEPT ![c].q = q]
              /\ pc' = [pc EXCEPT ![c] = Entry(req[c].kind)]
              /\ UNCHANGED resp
       ELSE Reply(c, 404)
  /\ UNCHANGED <<clock, nextId, started, store, req>>
\* findQueue: p.Queue(name); every error is answered 404
FindQueue(c) ==
  /\ pc[c] = "findQueue"
  /\ \E ok \in BOOLEAN :
       IF ok /\ QueuesNamed(loc[c].p, req[c].queue) # {}
       THEN \E q \in QueuesNamed(loc[c].p, req[c].queue) :
              /\ loc' = [loc EXCEPT ![c].q = q]
              /\ pc' = [pc EXCEPT ![c] = Entry(req[c].kind)]
              /\ UNCHANGED resp
       ELSE Reply(c, 404)
  /\ UNCHANGED <<clock, nextId, started, store, req>>

(***************************************************************************)
(* GET .../messages: getMessages, Queue.LeaseMessages,                     *)
(* session.FindAndUpdateMessages, messageInfos                             *)
(***************************************************************************)
\* The loop of FindAndUpdateMessages is over with result res: messageInfos of
\* an empty list does no store call and the handler answers at once.
AfterLoop(c, l) ==
  IF Len(l.res) = 0
  THEN Finish(c, l.now, 200, <<>>, 2, <<>>)
  ELSE /\ pc' = [pc EXCEPT ![c] = "lease_infoP"]
       /\ loc' = [loc EXCEPT ![c] = l]
       /\ UNCHANGED resp

\* getMessages parses count and timeout; LeaseMessages reads the clock once;
\* FindAndUpdateMessages allocates its result (make panics on a negative
\* capacity) and enters its loop.
LeaseBegin(c) ==
  /\ pc[c] = "lease_begin"
  /\ LET n == parseCount(req[c].count)
         t == extractDuration(req[c].timeout, MinMessageTimeout,
                              MaxMessageTimeout, DefaultMessageTimeout)
         l == [loc[c] EXCEPT !.now = clock, !.count = n.n, !.timeout = t.d,
                             !.i = 0, !.res = <<>>]
     IN  IF n.err \/ t.err THEN Reply(c, 400)
         ELSE IF n.n < 0 THEN Reply(c, Aborted)
         ELSE IF n.n = 0 THEN AfterLoop(c, l)
         ELSE /\ pc' = [pc EXCEPT ![c] = "lease_claim"]
              /\ loc' = [loc EXCEPT ![c] = l]
              /\ UNCHANGED resp
  /\ UNCHANGED <<clock, nextId, started, store, req>>

\* (mutant: the claim takes the document out of the collection)
LeaseClaimPops(c) ==
  /\ pc[c] = "lease_claim"
  /\ loc[c].i < loc[c].count
  /\ \/ /\ Reply(c, 400)
        /\ UNCHANGED messages
     \/ /\ LeaseFilter(loc[c].q, loc[c].now) = {}
        /\ AfterLoop(c, loc[c])
        /\ UNCHANGED messages
     \/ \E m \in SortFirst(LeaseFilter(loc[c].q, loc[c].now)) :
          LET m2 == LeaseUpdate(m, loc[c].now, loc[c].timeout)
              l == [loc[c] EXCEPT !.i = @ + 1, !.res = Append(@, m2)]
          IN  /\ messages' = messages \ {m}
              /\ IF l.i < l.count
                 THEN /\ loc' = [loc EXCEPT ![c] = l]
                      /\ UNCHANGED <<pc, resp>>
                 ELSE AfterLoop(c, l)
  /\ UNCHANGED <<clock, nextId, started, projects, queues, req>>
\* One iteration of the loop: one findAndModify, atomic in the store
LeaseClaim(c) ==
  /\ pc[c] = "lease_claim"
  /\ loc[c].i < loc[c].count
  /\ \/ \* the store fails: LeaseMessages returns the error, answered 400
        /\ Reply(c, 400)
        /\ UNCHANGED messages
     \/ \* mgo.ErrNotFound: break
        /\ LeaseFilter(loc[c].q, loc[c].now) = {}
        /\ AfterLoop(c, loc[c])
        /\ UNCHANGED messages
     \/ \* a document matches: update it and collect the updated document
        \E m \in SortFirst(LeaseFilter(loc[c].q, loc[c].now)) :
          LET m2 == LeaseUpdate(m, loc[c].now, loc[c].timeout)
              l == [loc[c] EXCEPT !.i = @ + 1, !.res = Append(@, m2)]
          IN  /\ messages' = (messages \ {m}) \cup {m2}
              /\ IF l.i < l.count
                 THEN /\ loc' = [loc EXCEPT ![c] = l]
                      /\ UNCHANGED <<pc, resp>>
                 ELSE AfterLoop(c, l)
  /\ UNCHANGED <<clock, nextId, started, projects, queues, req>>

\* messageInfos: GetId("project", msgs[0].ProjectID)
LeaseInfoProject(c) ==
  /\ pc[c] = "lease_infoP"
  /\ \E ok \in BOOLEAN :
       IF ok /\ WithId(projects, loc[c].res[1].project) # {}
       THEN \E p \in WithId(projects, loc[c].res[1].project) :
              /\ loc' = [loc EXCEPT ![c].p = p]
              /\ pc' = [pc EXCEPT ![c] = "lease_infoQ"]
              /\ UNCHANGED resp
       ELSE Reply(c, 400)
  /\ UNCHANGED <<clock, nextId, started, store, req>>

\* messageInfos: GetId("queue", msgs[0].QueueID); then the handler writes the
\* list with sendResponse and once more with io.WriteString
LeaseInfoQueue(c) ==
  /\ pc[c] = "lease_infoQ"
  /\ \E ok \in BOOLEAN :
       IF ok /\ WithId(queues, loc[c].res[1].queue) # {}
       THEN \E q \in WithId(queues, loc[c].res[1].queue) :
              Finish(c, loc[c].now, 200,
                     messageInfos(loc[c].res, loc[c].p, q), 2, <<>>)
       ELSE Reply(c, 400)
  /\ UNCHANGED <<clock, nextId, started, store, req>>

(***************************************************************************)
(* POST .../messages: addMessages, SaveMessages                            *)
(***************************************************************************)
\* (mutant: only the first item is validated)
BadItemFirstOnly(items, k) ==
  IF k > Len(items) THEN 0
  ELSE IF items[k].body = "" THEN k
  ELSE IF extractDuration(items[k].expires_in, MinMessageExpiry,
                          MaxMessageExpiry, DefaultMessageExpiry).err THEN k
  ELSE 0
\* The first item the validation loop rejects, 0 if none
RECURSIVE BadItem(_, _)
BadItem(items, k) ==
  IF k > Len(items) THEN 0
  ELSE IF items[k].body = "" THEN k
  ELSE IF extractDuration(items[k].expires_in, MinMessageExpiry,
                          MaxMessageExpiry, DefaultMessageExpiry).err THEN k
  ELSE BadItem(items, k + 1)

\* The gotcha.Message addMessages builds for item k (LeaseExpiresAt is left
\* at its zero value)
NewMessage(item, id, q, now) ==
  [id |-> id, body |-> item.body, queue |-> q.id, project |-> q.project,
   createdAt |-> now,
   expiresAt |-> now + extractDuration(item.expires_in, MinMessageExpiry,
                         MaxMessageExpiry, DefaultMessageExpiry).d,
   lease |-> ZeroTime]

\* addMessages parses and validates the form, reads the clock and builds the
\* messages, each with a fresh id
EnqueuePrepare(c) ==
  /\ pc[c] = "enq_prepare"
  /\ LET items == req[c].items IN
       IF \/ req[c].form # "ok"
          \/ Len(items) > MaxEnqueueCount
          \/ BadItem(items, 1) # 0
       THEN Reply(c, 400) /\ UNCHANGED nextId
       ELSE /\ nextId + Len(items) - 1 <= MaxIds
            /\ nextId' = nextId + Len(items)
            /\ loc' = [loc EXCEPT ![c].now = clock,
                         ![c].res = [k \in 1..Len(items) |->
                            NewMessage(items[k], nextId + k - 1, loc[c].q, clock)]]
            /\ pc' = [pc EXCEPT ![c] = "enq_save"]
            /\ UNCHANGED resp
  /\ UNCHANGED <<clock, started, store, req>>

\* SaveMessages: one insert of the whole batch
EnqueueSave(c) ==
  /\ pc[c] = "enq_save"
  /\ \/ /\ messages' = messages \cup Range(loc[c].res)
        /\ Finish(c, loc[c].now, 201, <<>>, 0,
                  [k \in 1..Len(loc[c].res) |-> loc[c].res[k].id])
     \/ /\ Reply(c, 422)
        /\ UNCHANGED messages
  /\ UNCHANGED <<clock, nextId, started, projects, queues, req>>

(***************************************************************************)
(* POST .../messages/delete: deleteMessages, Queue.DeleteMessages          *)
(***************************************************************************)
\* (mutant: a message under an active lease is refused)
DeleteLoadLeaseHeld(c) ==
  /\ pc[c] = "del_load"
  /\ IF req[c].form # "ok" THEN Reply(c, 400)
     ELSE IF loc[c].i >= Len(req[c].ids) THEN Reply(c, 204)
     ELSE \E ok \in BOOLEAN :
            LET found == WithId(messages, req[c].ids[loc[c].i + 1]) IN
              IF ok /\ found # {}
              THEN \E m \in found :
                     IF m.queue # loc[c].q.id \/ m.lease >= clock
                     THEN Reply(c, 422)
                     ELSE /\ loc' = [loc EXCEPT ![c].m = m]
                          /\ pc' = [pc EXCEPT ![c] = "del_destroy"]
                          /\ UNCHANGED resp
              ELSE Reply(c, 422)
  /\ UNCHANGED <<clock, nextId, started, store, req>>
\* LoadMessage(id) for the next id of the list, and the queue check.  The
\* form is parsed before the first id; an empty list succeeds at once.
DeleteLoad(c) ==
  /\ pc[c] = "del_load"
  /\ IF req[c].form # "ok" THEN Reply(c, 400)
     ELSE IF loc[c].i >= Len(req[c].ids) THEN Reply(c, 204)
     ELSE \E ok \in BOOLEAN :
            LET found == WithId(messages, req[c].ids[loc[c].i + 1]) IN
              IF ok /\ found # {}
              THEN \E m \in found :
                     IF m.queue # loc[c].q.id
                     THEN Reply(c, 422)
                     ELSE /\ loc' = [loc EXCEPT ![c].m = m]
                          /\ pc' = [pc EXCEPT ![c] = "del_destroy"]
                          /\ UNCHANGED resp
              ELSE Reply(c, 422)
  /\ UNCHANGED <<clock, nextId, started, store, req>>

\* m.Destroy(): DestroyId("message", m.ID); its error is dropped
DeleteDestroy(c) ==
  /\ pc[c] = "del_destroy"
  /\ \/ messages' = {m \in messages : m.id # loc[c].m.id}
     \/ UNCHANGED messages
  /\ IF loc[c].i + 1 >= Len(req[c].ids) THEN Reply(c, 204)
     ELSE /\ loc' = [loc EXCEPT ![c].i = @ + 1, ![c].m = NoDoc]
          /\ pc' = [pc EXCEPT ![c] = "del_load"]
          /\ UNCHANGED resp
  /\ UNCHANGED <<clock, nextId, started, projects, queues, req>>

(***************************************************************************)
(* The clock                                                               *)
(***************************************************************************)
Tick ==
  /\ \E d \in TickSeconds :
       /\ clock + d <= MaxTicks * 10
       /\ clock' = clock + d
  /\ UNCHANGED <<nextId, started, store, pc, req, loc, resp>>

(***************************************************************************)
(* What the clients send                                                   *)
(***************************************************************************)
Item(b) == [body |-> b, expires_in |-> Nil]
BatchInputs == {<<Item("a")>>, <<Item("a"), Item("b")>>}
\* ids a client may name: those of stored messages, and one of no message
IdInputs == {m.id : m \in messages} \cup {0}

Request(kind, p, q) == [NoReq EXCEPT !.kind = kind, !.project = p, !.queue = q]

StartLease(c, qnames, counts, timeouts) ==
  \E p \in ProjectNames, q \in qnames, n \in counts, t \in timeouts :
    Begin(c, [Request("lease", p, q) EXCEPT !.count = n, !.timeout = t],
          "findProject")

StartEnqueue(c, qnames) ==
  \E p \in ProjectNames, q \in qnames, b \in BatchInputs :
    Begin(c, [Request("enqueue", p, q) EXCEPT !.items = b], "findProject")

StartDeleteMessages(c, qnames) ==
  \E p \in ProjectNames, q \in qnames, i \in IdInputs :
    Begin(c, [Request("deleteMessages", p, q) EXCEPT !.ids = <<i>>],
          "findProject")

\* The steps of the handlers that work on messages
MessageSteps(c) ==
  \/ FindProject(c)
  \/ FindQueue(c)
  \/ LeaseBegin(c)
  \/ LeaseClaim(c)
  \/ LeaseInfoProject(c)
  \/ LeaseInfoQueue(c)
  \/ EnqueuePrepare(c)
  \/ EnqueueSave(c)
  \/ DeleteLoad(c)
  \/ DeleteDestroy(c)

(***************************************************************************)
(* The lease protocol on an existing project with two queues: producers,   *)
(* consumers and acknowledgements                                          *)
(***************************************************************************)
InitLease ==
  /\ clock = 0
  /\ nextId = 4
  /\ started = 0
  /\ projects = {[id |-> 1, name |-> "p"]}
  /\ queues = {[id |-> 2, name |-> "q1", project |-> 1],
               [id |-> 3, name |-> "q2", project |-> 1]}
  /\ messages = {}
  /\ pc = [c \in Clients |-> "idle"]
  /\ req = [c \in Clients |-> NoReq]
  /\ loc = [c \in Clients |-> NoLoc]
  /\ resp = [c \in Clients |-> NoResp]

NextLease ==
  \/ Tick
  \/ \E c \in {"c1", "c2"} :
       \/ StartLease(c, {"q1"}, {Nil, Num(2)}, {Num(0 - 20), Num(0), Num(10)})
       \/ StartEnqueue(c, QueueNames)
       \/ StartDeleteMessages(c, {"q1"})
       \/ MessageSteps(c)

SpecLease == InitLease /\ [][NextLease]_vars

(***************************************************************************)
(* Concurrent consumers of one queue that holds two unleased messages,     *)
(* "a" and "b", enqueued in one batch.  Each client sends one lease        *)
(* request: c1 and c2 ask for two messages, with a timeout of 10 s or of   *)
(* -20 s; c3 asks for one message with a timeout of -20 s.                 *)
(***************************************************************************)
InitConsumers ==
  /\ clock = 0
  /\ nextId = 6
  /\ started = 0
  /\ projects = {[id |-> 1, name |-> "p"]}
  /\ queues = {[id |-> 2, name |-> "q1", project |-> 1]}
  /\ messages = {NewMessage(Item("a"), 4, [id |-> 2, project |-> 1], 0),
                 NewMessage(Item("b"), 5, [id |-> 2, project |-> 1], 0)}
  /\ pc = [c \in Clients |-> "idle"]
  /\ req = [c \in Clients |-> NoReq]
  /\ loc = [c \in Clients |-> NoLoc]
  /\ resp = [c \in Clients |-> NoResp]

NextConsumers ==
  \/ Tick
  \/ \E c \in Clients :
       \/ /\ pc[c] = "idle"
          /\ c # "c3"
          /\ StartLease(c, {"q1"}, {Num(2)}, {Num(0 - 20), Num(10)})
       \/ /\ pc[c] = "idle"
          /\ c = "c3"
          /\ StartLease(c, {"q1"}, {Nil}, {Num(0 - 30)})
       \/ FindProject(c)
       \/ FindQueue(c)
       \/ LeaseBegin(c)
       \/ LeaseClaim(c)
       \/ LeaseInfoProject(c)
       \/ LeaseInfoQueue(c)

SpecConsumers == InitConsumers /\ [][NextConsumers]_vars

(***************************************************************************)
(* POST /projects/:p: createProject, NewProject                            *)
(***************************************************************************)
\* Insert("project", p): the unique index on name rejects a second document
CreateProject(c) ==
  /\ pc[c] = "cp_insert"
  /\ nextId <= MaxIds
  /\ \E ok \in BOOLEAN :
       IF ok /\ ProjectsNamed(req[c].project) = {}
       THEN /\ projects' = projects \cup {[id |-> nextId, name |-> req[c].project]}
            /\ nextId' = nextId + 1
            /\ Reply(c, 204)
       ELSE /\ UNCHANGED <<projects, nextId>>
            /\ Reply(c, 422)
  /\ UNCHANGED <<clock, started, queues, messages, req>>

(***************************************************************************)
(* POST /projects/:p/queues/:q: createQueue, NewQueue                      *)
(***************************************************************************)
\* project.Info(): Count("queue", {project}), then the quota check
CreateQueueCount(c) ==
  /\ pc[c] = "cq_count"
  /\ \E ok \in BOOLEAN :
       IF ok /\ Cardinality(QueuesOf(loc[c].p.id)) < MaxQueuesPerProject
       THEN /\ pc' = [pc EXCEPT ![c] = "cq_insert"]
            /\ UNCHANGED <<loc, resp>>
       ELSE Reply(c, 422)
  /\ UNCHANGED <<clock, nextId, started, store, req>>

\* (mutant: the collection has no unique index on (project, name))
CreateQueueInsertNoIndex(c) ==
  /\ pc[c] = "cq_insert"
  /\ nextId <= MaxIds
  /\ queues' = queues \cup {[id |-> nextId, name |-> req[c].queue,
                              project |-> loc[c].p.id]}
  /\ nextId' = nextId + 1
  /\ Reply(c, 204)
  /\ UNCHANGED <<clock, started, projects, messages, req>>
\* Mongo.Insert("queue", &q): its error is dropped, the handler answers 204
\* whether or not the document was stored (the unique index on
\* (project, name) rejects a second one)
CreateQueueInsert(c) ==
  /\ pc[c] = "cq_insert"
  /\ nextId <= MaxIds
  /\ \E ok \in BOOLEAN :
       IF ok /\ QueuesNamed(loc[c].p, req[c].queue) = {}
       THEN /\ queues' = queues \cup {[id |-> nextId, name |-> req[c].queue,
                                       project |-> loc[c].p.id]}
            /\ nextId' = nextId + 1
       ELSE UNCHANGED <<queues, nextId>>
  /\ Reply(c, 204)
  /\ UNCHANGED <<clock, started, projects, messages, req>>

(***************************************************************************)
(* Queue.Destroy, as deleteQueue and Project.Destroy call it               *)
(***************************************************************************)
\* (mutant: Queue.Destroy goes on to the queue record when Clear failed)
QueueClearErrorDropped(c, at, next) ==
  /\ pc[c] = at
  /\ \/ messages' = messages \ MessagesOf(loc[c].q)
     \/ UNCHANGED messages
  /\ pc' = [pc EXCEPT ![c] = next]
  /\ UNCHANGED <<loc, resp>>
  /\ UNCHANGED <<clock, nextId, started, projects, queues, req>>
\* q.Clear(): Mongo.Destroy("message", {project, queue}).  When RemoveAll
\* fails, Destroy reads a field of the info it returned: the handler either
\* gets the error (422) or panics
QueueClear(c, at, next) ==
  /\ pc[c] = at
  /\ \/ /\ messages' = messages \ MessagesOf(loc[c].q)
        /\ pc' = [pc EXCEPT ![c] = next]
        /\ UNCHANGED <<loc, resp>>
     \/ /\ UNCHANGED messages
        /\ \E code \in {422, Aborted} : Reply(c, code)
  /\ UNCHANGED <<clock, nextId, started, projects, queues, req>>

\* Mongo.DestroyId("queue", q.ID): RemoveId fails when no document has the id
QueueRemoved(c) ==
  /\ queues' = queues \ WithId(queues, loc[c].q.id)
  /\ UNCHANGED <<clock, nextId, started, projects, messages, req>>
QueueNotRemoved(c) ==
  /\ Reply(c, 422)
  /\ UNCHANGED <<clock, nextId, started, store, req>>

(***************************************************************************)
(* DELETE /projects/:p/queues/:q: deleteQueue                              *)
(***************************************************************************)
DeleteQueueClear(c) == QueueClear(c, "dq_clear", "dq_queue")

DeleteQueueDestroy(c) ==
  /\ pc[c] = "dq_queue"
  /\ \E ok \in BOOLEAN :
       IF ok /\ WithId(queues, loc[c].q.id) # {}
       THEN QueueRemoved(c) /\ Reply(c, 204)
       ELSE QueueNotRemoved(c)

(***************************************************************************)
(* GET /projects/:p/queues/:q: showQueue, Queue.Info                       *)
(***************************************************************************)
QueueInfo(q, p, size) == [name |-> q.name, project |-> p.name, size |-> size]

\* size, err := Mongo.Count("message", {project, queue})
ShowQueueCount(c) ==
  /\ pc[c] = "sq_count"
  /\ \/ /\ loc' = [loc EXCEPT ![c].count = Cardinality(MessagesOf(loc[c].q))]
        /\ pc' = [pc EXCEPT ![c] = "sq_project"]
        /\ UNCHANGED resp
     \/ Reply(c, 422)
  /\ UNCHANGED <<clock, nextId, started, store, req>>

\* Mongo.GetId("project", q.ProjectID), then sendResponse(w, i)
ShowQueueProject(c) ==
  /\ pc[c] = "sq_project"
  /\ \E ok \in BOOLEAN :
       IF ok /\ WithId(projects, loc[c].q.project) # {}
       THEN \E p \in WithId(projects, loc[c].q.project) :
              Finish(c, loc[c].now, 200,
                     <<QueueInfo(loc[c].q, p, loc[c].count)>>, 1, <<>>)
       ELSE Reply(c, 422)
  /\ UNCHANGED <<clock, nextId, started, store, req>>

(***************************************************************************)
(* POST /projects/:p/queues/:q/clear: clearQueue                           *)
(***************************************************************************)
ClearQueueClear(c) == QueueClear(c, "cl_clear", "cl_reply")

\* w.WriteHeader(204)
ClearQueueReply(c) ==
  /\ pc[c] = "cl_reply"
  /\ Reply(c, 204)
  /\ UNCHANGED <<clock, nextId, started, store, req>>

(***************************************************************************)
(* DELETE /projects/:p: deleteProject, Project.Destroy                     *)
(***************************************************************************)
\* Get("queue", {project}): the queues of the project, in the store's order
DeleteProjectList(c) ==
  /\ pc[c] = "dp_list"
  /\ \/ \E qs \in Orders(QueuesOf(loc[c].p.id)) :
          /\ loc' = [loc EXCEPT ![c].qs = qs, ![c].i = 0,
                                ![c].q = IF qs = <<>> THEN NoDoc ELSE qs[1]]
          /\ pc' = [pc EXCEPT ![c] = IF qs = <<>> THEN "dp_project" ELSE "dp_clear"]
          /\ UNCHANGED resp
     \/ Reply(c, 422)
  /\ UNCHANGED <<clock, nextId, started, store, req>>

\* for _, q := range qs { q.Destroy() }: first q.Clear() ...
DeleteProjectClear(c) == QueueClear(c, "dp_clear", "dp_queue")

\* ... then DestroyId("queue", q.ID); an error ends Project.Destroy
DeleteProjectQueue(c) ==
  /\ pc[c] = "dp_queue"
  /\ \E ok \in BOOLEAN :
       IF ok /\ WithId(queues, loc[c].q.id) # {}
       THEN /\ QueueRemoved(c)
            /\ LET i == loc[c].i + 1
                   more == i < Len(loc[c].qs)
               IN  /\ loc' = [loc EXCEPT ![c].i = i,
                                ![c].q = IF more THEN loc[c].qs[i + 1] ELSE NoDoc]
                   /\ pc' = [pc EXCEPT ![c] = IF more THEN "dp_clear" ELSE "dp_project"]
            /\ UNCHANGED resp
       ELSE QueueNotRemoved(c)

\* return Mongo.DestroyId("project", p.ID)
DeleteProjectDestroy(c) ==
  /\ pc[c] = "dp_project"
  /\ \E ok \in BOOLEAN :
       IF ok /\ WithId(projects, loc[c].p.id) # {}
       THEN /\ projects' = projects \ WithId(projects, loc[c].p.id)
            /\ Reply(c, 204)
       ELSE /\ UNCHANGED projects
            /\ Reply(c, 422)
  /\ UNCHANGED <<clock, nextId, started, queues, messages, req>>

(***************************************************************************)
(* The hierarchy: a project "p" with one queue "q1" holding one message;   *)
(* clients create and delete projects and queues and enqueue messages      *)
(***************************************************************************)
StartCreateProject(c) ==
  \E p \in ProjectNames : Begin(c, Request("createProject", p, ""), "cp_insert")
StartDeleteProject(c) ==
  \E p \in ProjectNames : Begin(c, Request("deleteProject", p, ""), "findProject")
StartCreateQueue(c, qnames) ==
  \E p \in ProjectNames, q \in qnames :
    Begin(c, Request("createQueue", p, q), "findProject")
StartDeleteQueue(c, qnames) ==
  \E p \in ProjectNames, q \in qnames :
    Begin(c, Request("deleteQueue", p, q), "findProject")

\* The steps of the handlers that work on projects and queues
HierarchySteps(c) ==
  \/ CreateProject(c)
  \/ CreateQueueCount(c)
  \/ CreateQueueInsert(c)
  \/ DeleteQueueClear(c)
  \/ DeleteQueueDestroy(c)
  \/ DeleteProjectList(c)
  \/ DeleteProjectClear(c)
  \/ DeleteProjectQueue(c)
  \/ DeleteProjectDestroy(c)

InitHierarchy ==
  /\ clock = 0
  /\ nextId = 4
  /\ started = 0
  /\ projects = {[id |-> 1, name |-> "p"]}
  /\ queues = {[id |-> 2, name |-> "q1", project |-> 1]}
  /\ messages = {NewMessage(Item("a"), 3, [id |-> 2, name |-> "q1", project |-> 1], 0)}
  /\ pc = [c \in Clients |-> "idle"]
  /\ req = [c \in Clients |-> NoReq]
  /\ loc = [c \in Clients |-> NoLoc]
  /\ resp = [c \in Clients |-> NoResp]

NextHierarchy ==
  \E c \in {"c1", "c2"} :
    \/ StartCreateProject(c)
    \/ StartDeleteProject(c)
    \/ StartCreateQueue(c, QueueNames)
    \/ StartDeleteQueue(c, {"q1"})
    \/ StartEnqueue(c, {"q1"})
    \/ FindProject(c)
    \/ FindQueue(c)
    \/ EnqueuePrepare(c)
    \/ EnqueueSave(c)
    \/ HierarchySteps(c)

SpecHierarchy == InitHierarchy /\ [][NextHierarchy]_vars

(***************************************************************************)
(* The quota: project "p" holds one queue less than MaxQueuesPerProject;   *)
(* c1 creates queue "q1" and c2 creates queue "q2"                         *)
(***************************************************************************)
Creators == {"c1", "c2"}
BulkQueues ==
  {[id |-> 1000 + k, name |-> "b" \o ToString(k), project |-> 1] :
     k \in 1..(MaxQueuesPerProject - 1)}

InitQuota ==
  /\ clock = 0
  /\ nextId = 4
  /\ started = 0
  /\ projects = {[id |-> 1, name |-> "p"]}
  /\ queues = BulkQueues
  /\ messages = {}
  /\ pc = [c \in Clients |-> "idle"]
  /\ req = [c \in Clients |-> NoReq]
  /\ loc = [c \in Clients |-> NoLoc]
  /\ resp = [c \in Clients |-> NoResp]

NextQuota ==
  \E c \in Creators :
    \/ StartCreateQueue(c, IF c = "c1" THEN {"q1"} ELSE {"q2"})
    \/ FindProject(c)
    \/ CreateQueueCount(c)
    \/ CreateQueueInsert(c)

SpecQuota == InitQuota /\ [][NextQuota]_vars

(***************************************************************************)
(* Round trip: c1 enqueues into q1, c2 leases from q1 with valid           *)
(* parameters                                                              *)
(***************************************************************************)
NextRoundTrip ==
  \/ Tick
  \/ StartEnqueue("c1", {"q1"})
  \/ StartLease("c2", {"q1"}, {Nil, Num(2)}, {Nil, Num(10)})
  \/ \E c \in {"c1", "c2"} :
       \/ FindProject(c)
       \/ FindQueue(c)
       \/ EnqueuePrepare(c)
       \/ EnqueueSave(c)
       \/ LeaseBegin(c)
       \/ LeaseClaim(c)
       \/ LeaseInfoProject(c)
       \/ LeaseInfoQueue(c)

SpecRoundTrip == InitLease /\ [][NextRoundTrip]_vars

(***************************************************************************)
(* Validation: c1 posts well-formed and ill-formed batches to q1, c2       *)
(* leases from q1 with timeouts inside and outside the documented range    *)
(***************************************************************************)
\* req.ParseForm failed, no 'messages' value, 'messages' is not JSON
FormInputs == {"ok", "badform", "nomessages", "badjson"}
ItemWith(b, e) == [body |-> b, expires_in |-> e]
ValidationBatches ==
  {<<Item("a")>>,
   <<Item("a"), Item("")>>,
   <<Item("a"), ItemWith("b", Bad)>>,
   [k \in 1..(MaxEnqueueCount + 1) |-> Item("a")],
   <<ItemWith("a", Num(MinMessageExpiry))>>,
   <<ItemWith("a", Num(MinMessageExpiry - 1))>>,
   <<ItemWith("a", Num(MaxMessageExpiry + 1))>>,
   <<ItemWith("a", Num(0))>>,
   <<ItemWith("a", Num(0 - MinMessageExpiry))>>}
TimeoutInputs ==
  {Nil, Bad, Num(MinMessageTimeout), Num(MinMessageTimeout - 1),
   Num(MaxMessageTimeout + 1), Num(0 - MinMessageTimeout)}

StartEnqueueForm(c, qnames, forms, batches) ==
  \E p \in ProjectNames, q \in qnames, f \in forms, b \in batches :
    Begin(c, [Request("enqueue", p, q) EXCEPT !.form = f, !.items = b],
          "findProject")

NextValidation ==
  \/ StartEnqueueForm("c1", {"q1"}, FormInputs, ValidationBatches)
  \/ StartLease("c2", {"q1"}, {Nil}, TimeoutInputs)
  \/ \E c \in {"c1", "c2"} :
       \/ FindProject(c)
       \/ FindQueue(c)
       \/ EnqueuePrepare(c)
       \/ EnqueueSave(c)
       \/ LeaseBegin(c)
       \/ LeaseClaim(c)
       \/ LeaseInfoProject(c)
       \/ LeaseInfoQueue(c)

SpecValidation == InitLease /\ [][NextValidation]_vars

(***************************************************************************)
(* A long queue: q1 holds one message more than MaxLeaseCount, each        *)
(* enqueued one second after the other; c1 asks for all of them            *)
(***************************************************************************)
BulkMessages ==
  {[id |-> 1000 + k, body |-> "a", queue |-> 2, project |-> 1,
    createdAt |-> k - (MaxLeaseCount + 1),
    expiresAt |-> k - (MaxLeaseCount + 1) + DefaultMessageExpiry,
    lease |-> ZeroTime] : k \in 1..(MaxLeaseCount + 1)}

InitBulkLease ==
  /\ clock = 0
  /\ nextId = 4
  /\ started = 0
  /\ projects = {[id |-> 1, name |-> "p"]}
  /\ queues = {[id |-> 2, name |-> "q1", project |-> 1]}
  /\ messages = BulkMessages
  /\ pc = [c \in Clients |-> "idle"]
  /\ req = [c \in Clients |-> NoReq]
  /\ loc = [c \in Clients |-> NoLoc]
  /\ resp = [c \in Clients |-> NoResp]

NextBulkLease ==
  \/ StartLease("c1", {"q1"}, {Num(MaxLeaseCount + 1)}, {Nil})
  \/ FindProject("c1")
  \/ FindQueue("c1")
  \/ LeaseBegin("c1")
  \/ LeaseClaim("c1")
  \/ LeaseInfoProject("c1")
  \/ LeaseInfoQueue("c1")

SpecBulkLease == InitBulkLease /\ [][NextBulkLease]_vars

(***************************************************************************)
(* The operations on a queue, on names that exist ("p", "q1") and on names *)
(* that do not ("x", "q2"); q1 holds one message                           *)
(***************************************************************************)
QueueScoped ==
  {"showQueue", "deleteQueue", "clearQueue", "enqueue", "lease", "deleteMessages"}

StartQueueScoped(c, pnames, qnames) ==
  \E k \in QueueScoped, p \in pnames, q \in qnames, i \in IdInputs :
    Begin(c, [Request(k, p, q) EXCEPT
                !.items = IF k = "enqueue" THEN <<Item("a")>> ELSE <<>>,
                !.ids = IF k = "deleteMessages" THEN <<i>> ELSE <<>>],
          "findProject")

NextQueueOps ==
  \E c \in {"c1", "c2"} :
    \/ StartQueueScoped(c, {"p", "x"}, {"q1", "q2"})
    \/ MessageSteps(c)
    \/ ShowQueueCount(c)
    \/ ShowQueueProject(c)
    \/ ClearQueueClear(c)
    \/ ClearQueueReply(c)
    \/ DeleteQueueClear(c)
    \/ DeleteQueueDestroy(c)

SpecQueueOps == InitHierarchy /\ [][NextQueueOps]_vars

(***************************************************************************)
(* The life of a message: q1 holds message 4, enqueued long ago and past   *)
(* its expiry; c1 consumes (leases two at a time, acknowledges one id),    *)
(* c2 produces and administers (enqueues, shows, clears and deletes q1,    *)
(* deletes the project)                                                    *)
(***************************************************************************)
StartDeleteList(c, qnames) ==
  \E p \in ProjectNames, q \in qnames, i \in IdInputs, j \in IdInputs :
    /\ i # j
    /\ Begin(c, [Request("deleteMessages", p, q) EXCEPT !.ids = <<i, j>>],
             "findProject")

StartQueueOp(c, kinds, qnames) ==
  \E k \in kinds, p \in ProjectNames, q \in qnames :
    Begin(c, Request(k, p, q), "findProject")

InitLifecycle ==
  /\ clock = 0
  /\ nextId = 5
  /\ started = 0
  /\ projects = {[id |-> 1, name |-> "p"]}
  /\ queues = {[id |-> 2, name |-> "q1", project |-> 1],
               [id |-> 3, name |-> "q2", project |-> 1]}
  /\ messages = {NewMessage(Item("a"), 4, [id |-> 2, project |-> 1],
                            0 - DefaultMessageExpiry - 10)}
  /\ pc = [c \in Clients |-> "idle"]
  /\ req = [c \in Clients |-> NoReq]
  /\ loc = [c \in Clients |-> NoLoc]
  /\ resp = [c \in Clients |-> NoResp]

NextLifecycle ==
  \/ Tick
  \/ StartLease("c1", {"q1"}, {Num(2)}, {Num(10)})
  \/ StartDeleteMessages("c1", {"q1"})
  \/ StartEnqueueForm("c2", {"q1"}, {"ok"}, {<<Item("b")>>})
  \/ StartQueueOp("c2", {"showQueue", "clearQueue", "deleteQueue"}, {"q1"})
  \/ StartDeleteProject("c2")
  \/ \E c \in {"c1", "c2"} :
       \/ MessageSteps(c)
       \/ ShowQueueCount(c)
       \/ ShowQueueProject(c)
       \/ ClearQueueClear(c)
       \/ ClearQueueReply(c)
       \/ DeleteQueueClear(c)
       \/ DeleteQueueDestroy(c)
       \/ DeleteProjectList(c)
       \/ DeleteProjectClear(c)
       \/ DeleteProjectQueue(c)
       \/ DeleteProjectDestroy(c)

SpecLifecycle == InitLifecycle /\ [][NextLifecycle]_vars

(***************************************************************************)
(* Acknowledgements of two ids in one request, on q1 (which holds the old  *)
(* message 4) and on q2, while c2 enqueues into either queue               *)
(***************************************************************************)
NextAck ==
  \/ StartDeleteList("c1", QueueNames)
  \/ StartEnqueueForm("c2", QueueNames, {"ok"}, {<<Item("b")>>})
  \/ \E c \in {"c1", "c2"} :
       \/ FindProject(c)
       \/ FindQueue(c)
       \/ EnqueuePrepare(c)
       \/ EnqueueSave(c)
       \/ DeleteLoad(c)
       \/ DeleteDestroy(c)

SpecAck == InitLifecycle /\ [][NextAck]_vars

(***************************************************************************)
(* Leases and acknowledgements of the one message of q1: c1 and c2 lease   *)
(* it for ten seconds, c3 acknowledges it                                  *)
(***************************************************************************)
NextOwnership ==
  \/ Tick
  \/ \E c \in {"c1", "c2"} : StartLease(c, {"q1"}, {Nil}, {Num(10)})
  \/ StartDeleteMessages("c3", {"q1"})
  \/ \E c \in Clients :
       \/ FindProject(c)
       \/ FindQueue(c)
       \/ LeaseBegin(c)
       \/ LeaseClaim(c)
       \/ LeaseInfoProject(c)
       \/ LeaseInfoQueue(c)
       \/ DeleteLoad(c)
       \/ DeleteDestroy(c)

SpecOwnership == InitHierarchy /\ [][NextOwnership]_vars

(***************************************************************************)
(* Properties                                                              *)
(***************************************************************************)
Leasing(c) == req[c].kind = "lease" /\ pc[c] \in {"lease_claim", "lease_infoP", "lease_infoQ"}
\* c's handler has answered 200 to a lease request
Leased(c) == req[c].kind = "lease" /\ pc[c] = "done" /\ resp[c].code = 200
\* the step is a successful claim by c (one findAndModify that matched)
Claims(c) == pc[c] = "lease_claim" /\ Len(loc'[c].res) = Len(loc[c].res) + 1
Claimed(c) == loc'[c].res[Len(loc'[c].res)]

\* C4 (Eligibility): a lease call on queue q claims a message only if, in the
\* store at that atomic step, the message has q's project id and queue id and
\* its leaseExpiresAt is strictly before the time the call read at its start;
\* a never-leased message is eligible for every call on its queue; nothing a
\* call has collected belongs to another queue.
C4_Eligibility ==
  /\ [][\A c \in Clients : Claims(c) =>
          \E m \in messages :
            /\ m.id = Claimed(c).id
            /\ m.project = loc[c].q.project
            /\ m.queue = loc[c].q.id
            /\ m.lease < loc[c].now]_vars
  /\ [](\A c \in Clients : Leasing(c) =>
          /\ \A k \in 1..Len(loc[c].res) :
               /\ loc[c].res[k].queue = loc[c].q.id
               /\ loc[c].res[k].project = loc[c].q.project
          /\ \A m \in MessagesOf(loc[c].q) :
               m.lease = ZeroTime => m \in LeaseFilter(loc[c].q, loc[c].now))

\* C4 witness: a lease on q1 returned a message enqueued at the very time the
\* call started, while q2 holds a message
C4_Witness ==
  \E c \in Clients :
    /\ Leased(c)
    /\ req[c].queue = "q1"
    /\ Len(resp[c].body) > 0
    /\ resp[c].body[1].createdAt = loc[c].now
    /\ \E m \in messages : m.queue = 3

\* The ids of the messages in a lease response, as a bag: id -> occurrences
Occurrences(body, id) == Cardinality({k \in 1..Len(body) : body[k].id = id})

\* C1 (Exclusive lease): when two different lease calls have both returned a
\* message, the leaseExpiresAt written by one of the two grants is not after
\* the time at which the other call started.
C1_ExclusiveLease ==
  \A a \in Clients, b \in Clients :
    (a # b /\ Leased(a) /\ Leased(b)) =>
      \A i \in 1..Len(resp[a].body), j \in 1..Len(resp[b].body) :
        resp[a].body[i].id = resp[b].body[j].id =>
          \/ resp[a].body[i].leaseExpiresAt <= loc[b].now
          \/ resp[b].body[j].leaseExpiresAt <= loc[a].now

\* C3: with the two unleased messages 4 ("a") and 5 ("b") in the queue, two
\* concurrent lease calls with count=2 that start at the same time and both
\* answer return, together, each of the two messages exactly once.
C3_TwoConsumers ==
  (/\ Leased("c1") /\ Leased("c2")
   /\ loc["c1"].now = loc["c2"].now
   /\ pc["c3"] = "idle") =>
     \A id \in {4, 5} :
       Occurrences(resp["c1"].body, id) + Occurrences(resp["c2"].body, id) = 1

\* the step is the findAndModify of c that finds no document (the loop breaks)
NotFoundStep(c) ==
  /\ pc[c] = "lease_claim"
  /\ \/ pc'[c] = "lease_infoP" /\ loc'[c].res = loc[c].res
     \/ pc'[c] = "done" /\ resp'[c].code = 200
Collected(c) == {loc[c].res[k].id : k \in 1..Len(loc[c].res)}

\* C2 as claimed (Lease expiry return): a message leased until t+tau by
\* another call is eligible for a lease call that starts at time t+tau or
\* later, so such a call does not stop on NotFound while the message is stored
\* in its queue.
C2_EligibleAtDeadline ==
  [][\A c \in Clients : NotFoundStep(c) =>
       \A m \in messages :
         (m.project = loc[c].q.project /\ m.queue = loc[c].q.id
            /\ m.id \notin Collected(c)) => ~(m.lease <= loc[c].now)]_vars

\* C2 as amended: a message whose lease was written as t+tau (t the start of
\* the granting call) is claimed only by calls that start strictly after
\* t+tau, and a call that started strictly after t+tau does not stop on
\* NotFound while the message is stored in its queue.
C2_LeaseExpiry ==
  [][\A c \in Clients :
       /\ NotFoundStep(c) =>
            \A m \in messages :
              (m.project = loc[c].q.project /\ m.queue = loc[c].q.id)
                 => ~(m.lease < loc[c].now)
       /\ Claims(c) =>
            \A m \in messages :
              m.id = Claimed(c).id => m.lease < loc[c].now]_vars

\* C2 witness: a message leased with timeout 10 has been returned again by a
\* call that started after the deadline the first call returned
C2_Witness ==
  \E a \in Clients, b \in Clients :
    /\ a # b /\ Leased(a) /\ Leased(b)
    /\ req[a].timeout = Num(10)
    /\ \E i \in 1..Len(resp[a].body), j \in 1..Len(resp[b].body) :
         /\ resp[a].body[i].id = resp[b].body[j].id
         /\ resp[a].body[i].leaseExpiresAt = loc[a].now + 10
         /\ resp[a].body[i].leaseExpiresAt < loc[b].now

NonIncreasing(s) == \A k \in 1..(Len(s) - 1) : s[k].createdAt >= s[k + 1].createdAt

\* C5 as claimed (Ordering): the list a lease call has collected, and the list
\* it returns, is in non-increasing createdAt order in every reachable state.
C5_AlwaysNewestFirst ==
  \A c \in Clients :
    /\ Leasing(c) => NonIncreasing(loc[c].res)
    /\ Leased(c) => NonIncreasing(resp[c].body)

\* C5 as amended: every claim step takes a message that is, at that step, a
\* newest one among the stored messages of the queue whose lease is before
\* the call's start.
C5_NewestEligibleFirst ==
  [][\A c \in Clients : Claims(c) =>
       \A n \in messages :
         (n.project = loc[c].q.project /\ n.queue = loc[c].q.id
            /\ n.lease < loc[c].now) => n.createdAt <= Claimed(c).createdAt]_vars

\* C5 witness: a call returned two messages of different age, newest first
C5_Witness ==
  \E c \in Clients :
    /\ Leased(c)
    /\ Len(resp[c].body) = 2
    /\ resp[c].body[1].createdAt > resp[c].body[2].createdAt

\* The queue a finished request named
QueueOfRequest(c) == {q \in queues : q.project = loc[c].p.id /\ q.name = req[c].queue}
\* c is the only client that ever sent a request
Alone(c) == \A d \in Clients \ {c} : pc[d] = "idle"

\* C6 (Best-effort completeness): a lease call that ran with no other request
\* in flight and answered 200 returns exactly min(count, k) messages, where k
\* is the number of messages of the queue that were eligible at its start
\* (those it returned and those still eligible for it).
C6_MinCountEligible ==
  \A c \in Clients :
    (Leased(c) /\ Alone(c)) =>
      \A q \in QueueOfRequest(c) :
        LET returned == {resp[c].body[k].id : k \in 1..Len(resp[c].body)}
            left == {m.id : m \in LeaseFilter(q, loc[c].now)}
        IN  Len(resp[c].body) =
              Min(parseCount(req[c].count).n, Cardinality(returned \cup left))

\* c's handler has answered 204 to a request to delete message id
Acked(c, id) ==
  /\ req[c].kind = "deleteMessages" /\ pc[c] = "done" /\ resp[c].code = 204
  /\ id \in Range(req[c].ids)

\* C7 (Delete honors queue): once DeleteMessages(q, [id]) has succeeded the
\* message is not in the store, it succeeds only for a message of q, and a
\* message of another queue is never removed by it.
C7_DeleteHonorsQueue ==
  /\ [](\A c \in Clients, m \in messages : ~Acked(c, m.id))
  /\ [][\A c \in Clients :
          /\ (pc[c] = "del_load" /\ pc'[c] = "del_destroy") =>
               \E m \in messages :
                 /\ m.id = req[c].ids[loc[c].i + 1]
                 /\ m.queue = loc[c].q.id
          /\ pc[c] = "del_destroy" =>
               \A m \in messages : m.queue # loc[c].q.id => m \in messages']_vars

\* C8 (Acknowledgement is final): a lease call that started after
\* DeleteMessages(q, [id]) returned success does not return id.
C8_AckIsFinal ==
  \A a \in Clients, b \in Clients :
    (Leased(b) /\ loc[b].now > resp[a].at) =>
      \A k \in 1..Len(resp[b].body) : ~Acked(a, resp[b].body[k].id)

\* c's handler has answered 204 to DELETE /projects/:p
ProjectDeleted(c) ==
  req[c].kind = "deleteProject" /\ pc[c] = "done" /\ resp[c].code = 204

\* C9 (Cascade): while the 204 to DELETE /projects/p stands, no stored queue
\* and no stored message carries the id of the deleted project, and no
\* stored project has it.
C9_Cascade ==
  \A c \in Clients : ProjectDeleted(c) =>
    /\ \A q \in queues : q.project # loc[c].p.id
    /\ \A m \in messages : m.project # loc[c].p.id
    /\ \A p \in projects : p.id # loc[c].p.id

\* C10 (A queue cannot outlive its project): when no request is in flight,
\* the project id of every stored queue is the id of a stored project.
C10_QueueHasProject ==
  (\A c \in Clients : pc[c] \in {"idle", "done"}) =>
    \A q \in queues : \E p \in projects : p.id = q.project

\* C11 (Project creation is idempotent): the insert of a POST /projects/:p
\* whose name is already that of a stored project is answered 204 and stores
\* no second project of that name.
C11_CreateProjectIdempotent ==
  [][\A c \in Clients :
       (pc[c] = "cp_insert" /\ pc'[c] = "done"
          /\ ProjectsNamed(req[c].project) # {}) =>
          /\ resp'[c].code = 204
          /\ projects' = projects]_vars

C13_BestEffortQuota ==
  /\ [](\A p \in projects :
          Cardinality(QueuesOf(p.id)) <= MaxQueuesPerProject + Cardinality(Creators))
  /\ [][\A c \in Clients :
          (/\ pc[c] = "cq_count" /\ pc'[c] # "cq_count"
           /\ Cardinality(QueuesOf(loc[c].p.id)) >= MaxQueuesPerProject) =>
             /\ pc'[c] = "done"
             /\ resp'[c].code = 422
             /\ queues' = queues]_vars

\* c's handler has answered 201 to an enqueue request
Enqueued(c) == req[c].kind = "enqueue" /\ pc[c] = "done" /\ resp[c].code = 201

\* C14 (Round-trip): a claim step changes only leaseExpiresAt of the message
\* it claims and nothing of any other message, and a message enqueued with
\* body b is stored, and returned by a lease, with body b.
C14_RoundTrip ==
  /\ [][\A c \in Clients : Claims(c) =>
          \E m \in messages :
            /\ m.id = Claimed(c).id
            /\ Claimed(c) = [m EXCEPT !.lease = Claimed(c).lease]
            /\ messages' = (messages \ {m}) \cup {Claimed(c)}]_vars
  /\ [](\A a \in Clients : Enqueued(a) =>
          \A k \in 1..Len(resp[a].ids) :
            /\ \A m \in messages :
                 m.id = resp[a].ids[k] => m.body = req[a].items[k].body
            /\ \A b \in Clients : Leased(b) =>
                 \A j \in 1..Len(resp[b].body) :
                   resp[b].body[j].id = resp[a].ids[k] =>
                     resp[b].body[j].body = req[a].items[k].body)

\* C14 witness: the batch ("a", "b") was enqueued and a lease returned both
\* messages, "b" among them, while the 201 still stands
C14_Witness ==
  \E a \in Clients, b \in Clients :
    /\ Enqueued(a) /\ Len(resp[a].ids) = 2
    /\ Leased(b) /\ Len(resp[b].body) = 2
    /\ \E j \in 1..2 :
         /\ resp[b].body[j].id = resp[a].ids[2]
         /\ resp[b].body[j].body = "b"

\* the batch of c's enqueue request must be refused
IllFormed(c) ==
  \/ req[c].form # "ok"
  \/ Len(req[c].items) > MaxEnqueueCount
  \/ \E k \in 1..Len(req[c].items) : req[c].items[k].body = ""

\* C15 (Enqueue validation is all-or-nothing): the validation of a request
\* with a malformed form, with more than MaxEnqueueCount items or with an
\* item without a body ends with 400 and stores nothing; only fully valid
\* batches reach the insert; no stored message has an empty body.
C15_AllOrNothing ==
  /\ [][\A c \in Clients :
          (pc[c] = "enq_prepare" /\ pc'[c] # "enq_prepare" /\ IllFormed(c)) =>
             /\ pc'[c] = "done"
             /\ resp'[c].code = 400
             /\ messages' = messages]_vars
  /\ [](\A c \in Clients : pc[c] = "enq_save" =>
          /\ ~IllFormed(c)
          /\ Len(loc[c].res) = Len(req[c].items))
  /\ [](\A m \in messages : m.body # "")

\* C15 witness: the batch ("a", "") was answered 400 and the store holds no
\* message
C15_Witness ==
  \E c \in Clients :
    /\ req[c].kind = "enqueue" /\ req[c].form = "ok"
    /\ Len(req[c].items) = 2 /\ req[c].items[2].body = ""
    /\ pc[c] = "done" /\ resp[c].code = 400
    /\ messages = {}

\* the form value holds an integer outside [min, max]
OutOfRange(val, min, max) == val[1] = "int" /\ (val[2] < min \/ val[2] > max)

\* C16 (Duration range validation): the validation of an enqueue request with
\* an item whose expires_in is an integer outside [MinMessageExpiry,
\* MaxMessageExpiry], and of a lease request whose timeout is an integer
\* outside [MinMessageTimeout, MaxMessageTimeout], ends with 400 and leaves
\* the messages as they are.
C16_DurationRange ==
  [][\A c \in Clients :
       /\ (/\ pc[c] = "enq_prepare" /\ pc'[c] # "enq_prepare"
           /\ \E k \in 1..Len(req[c].items) :
                OutOfRange(req[c].items[k].expires_in,
                           MinMessageExpiry, MaxMessageExpiry)) =>
             (pc'[c] = "done" /\ resp'[c].code = 400 /\ messages' = messages)
       /\ (/\ pc[c] = "lease_begin" /\ pc'[c] # "lease_begin"
           /\ OutOfRange(req[c].timeout, MinMessageTimeout, MaxMessageTimeout)) =>
             (pc'[c] = "done" /\ resp'[c].code = 400 /\ messages' = messages)]_vars

\* C17 (Lease count bound): a lease call never holds, and never returns,
\* more than MaxLeaseCount messages.
C17_LeaseCountBound ==
  \A c \in Clients :
    /\ Leasing(c) => Len(loc[c].res) <= MaxLeaseCount
    /\ Leased(c) => Len(resp[c].body) <= MaxLeaseCount

\* C18: every stored message expires after it was created.
C18_ExpiresAfterCreated ==
  \A m \in messages : m.expiresAt > m.createdAt

Size(q) == Cardinality({m \in messages : m.project = q.project /\ m.queue = q.id})
SizeAfter(q) ==
  Cardinality({m \in messages' : m.project = q.project /\ m.queue = q.id})

\* C20 (Queue size is a live count): the size Queue.Info reads is the number
\* of stored messages of the queue, leased or not; a claim step changes no
\* size, a successful enqueue of n messages adds n, a successful delete of a
\* message takes one away and a successful Clear leaves 0.
C20_LiveSize ==
  [][\A c \in Clients :
       /\ (pc[c] = "sq_count" /\ pc'[c] = "sq_project") =>
             loc'[c].count = Size(loc[c].q)
       /\ Claims(c) => \A q \in queues : SizeAfter(q) = Size(q)
       /\ (pc[c] = "enq_save" /\ pc'[c] = "done" /\ resp'[c].code = 201) =>
             SizeAfter(loc[c].q) = Size(loc[c].q) + Len(req[c].items)
       /\ (pc[c] = "del_destroy" /\ pc'[c] = "done" /\ resp'[c].code = 204) =>
             SizeAfter(loc[c].q) = Size(loc[c].q) - 1
       /\ (pc[c] = "cl_clear" /\ pc'[c] = "cl_reply") =>
             SizeAfter(loc[c].q) = 0]_vars

\* the timeout a lease request asked for, as getMessages parses it
TimeoutOf(c) ==
  extractDuration(req[c].timeout, MinMessageTimeout, MaxMessageTimeout,
                  DefaultMessageTimeout).d

\* C21 as claimed (Per-message lease deadline): the leaseExpiresAt a claim
\* step writes is the time of that step plus the timeout, so messages claimed
\* at different times within one call get different deadlines.
C21_PerMessageDeadline ==
  [][\A c \in Clients : Claims(c) =>
       Claimed(c).lease = clock + loc[c].timeout]_vars

\* C21 as amended: a lease call reads the time once, before its first
\* iteration; every claim step of the call writes that time plus the timeout,
\* and every message of one response carries that same deadline.
C21_CallStartDeadline ==
  /\ [][\A c \in Clients :
          /\ (pc[c] = "lease_begin" /\ pc'[c] = "lease_claim") =>
               loc'[c].now = clock
          /\ (pc[c] = "lease_claim" /\ pc'[c] = "lease_claim") =>
               loc'[c].now = loc[c].now
          /\ Claims(c) =>
               Claimed(c).lease = loc[c].now + loc[c].timeout]_vars
  /\ [](\A c \in Clients : Leased(c) =>
          \A k \in 1..Len(resp[c].body) :
            resp[c].body[k].leaseExpiresAt = loc[c].now + TimeoutOf(c))

\* C21 witness: a call that started before the clock advanced, and answered
\* after, returned two messages with the one deadline start + 10
C21_Witness ==
  \E c \in Clients :
    /\ Leased(c)
    /\ req[c].timeout = Num(10)
    /\ resp[c].at > loc[c].now
    /\ Len(resp[c].body) = 2
    /\ \A k \in 1..2 : resp[c].body[k].leaseExpiresAt = loc[c].now + 10

\* C22 (Pinned filter): no message id appears twice in the list a lease call
\* has collected, nor in the response it returns.
C22_NoIdTwice ==
  \A c \in Clients :
    /\ Leasing(c) =>
         \A i \in 1..Len(loc[c].res), j \in 1..Len(loc[c].res) :
           loc[c].res[i].id = loc[c].res[j].id => i = j
    /\ Leased(c) =>
         \A i \in 1..Len(resp[c].body), j \in 1..Len(resp[c].body) :
           resp[c].body[i].id = resp[c].body[j].id => i = j

\* the next id of c's delete request cannot be loaded, or is of another queue
NextIdFails(c) ==
  \A m \in WithId(messages, req[c].ids[loc[c].i + 1]) : m.queue # loc[c].q.id

\* C23 (DeleteMessages is sequential and not transactional): the ids are
\* taken in list order; at the first id that cannot be loaded or that belongs
\* to another queue the request ends with 422 and that step removes nothing;
\* when a request ends with 422 at an id, the ids before it in the list are
\* not in the store.
C23_SequentialDelete ==
  [][\A c \in Clients :
       /\ (/\ pc[c] = "del_load" /\ pc'[c] # "del_load"
           /\ req[c].form = "ok" /\ loc[c].i < Len(req[c].ids)
           /\ NextIdFails(c)) =>
             /\ pc'[c] = "done"
             /\ resp'[c].code = 422
             /\ messages' = messages
       /\ (pc[c] = "del_load" /\ pc'[c] = "done" /\ resp'[c].code = 422) =>
             /\ messages' = messages
             /\ \A k \in 1..loc[c].i : WithId(messages, req[c].ids[k]) = {}
       /\ (pc[c] = "del_destroy" /\ pc'[c] = "del_load") =>
             loc'[c].i = loc[c].i + 1]_vars

\* the positions of Queue.Destroy: before q.Clear(), before DestroyId
Clearing == {"dq_clear", "dp_clear"}
Removing == {"dq_queue", "dp_queue"}
StoredOf(q) == {m \in messages' : m.project = q.project /\ m.queue = q.id}

\* C24 (Queue destruction order): a queue record leaves the store only by the
\* DestroyId step of a Destroy whose Clear step succeeded; the Clear step
\* removes no queue record and, when it succeeds, leaves no message of the
\* queue in the store; a failed Clear ends the request with the queue record
\* and the messages in place; message 3, stored in q1 (queue 2) from the
\* start, is never stored while the record of q1 is gone.
C24_DestroyOrder ==
  /\ [][/\ \A q \in queues : q \notin queues' =>
             \E c \in Clients :
               /\ pc[c] \in Removing /\ pc'[c] # pc[c]
               /\ loc[c].q.id = q.id
        /\ \A c \in Clients :
             /\ (pc[c] \in Clearing /\ pc'[c] # pc[c]) => queues' = queues
             /\ (pc[c] \in Clearing /\ pc'[c] \in Removing) =>
                   StoredOf(loc[c].q) = {}
             /\ (pc[c] \in Clearing /\ pc'[c] = "done") =>
                   /\ resp'[c].code # 204
                   /\ store' = store
             /\ (pc'[c] \in Removing /\ pc'[c] # pc[c]) => pc[c] \in Clearing]_vars
  /\ [](WithId(queues, 2) = {} => WithId(messages, 3) = {})

\* C24 witness: DELETE of q1 was answered 204; the record of q1 and message 3
\* are gone
C24_Witness ==
  \E c \in Clients :
    /\ req[c].kind = "deleteQueue" /\ pc[c] = "done" /\ resp[c].code = 204
    /\ WithId(queues, 2) = {}
    /\ WithId(messages, 3) = {}

\* C25 (Cascade deletes stop on first error): when the destruction of a queue
\* fails during Project.Destroy, the request ends at that step with 422 and
\* the step leaves the project record, the queues and the messages as they
\* are.
C25_CascadeStops ==
  [][\A c \in Clients :
       (/\ req[c].kind = "deleteProject"
        /\ pc[c] \in {"dp_clear", "dp_queue"}
        /\ pc'[c] = "done") =>
          /\ resp'[c].code = 422
          /\ store' = store]_vars

\* the steps that remove messages: DestroyId of one message, RemoveAll of the
\* messages of a queue
Removers == {"del_destroy", "cl_clear", "dq_clear", "dp_clear"}
\* message m is past its expiry at time t (Message.Expired)
ExpiredAt(m, t) == m.expiresAt < t

C27_StoreFailure422 ==
  [][\A c \in Clients :
       /\ (/\ pc[c] \in {"lease_claim", "lease_infoP", "lease_infoQ"}
           /\ pc'[c] = "done" /\ resp'[c].code # 200) => resp'[c].code = 422
       /\ (/\ pc[c] = "enq_save"
           /\ pc'[c] = "done" /\ resp'[c].code # 201) => resp'[c].code = 422]_vars

\* C28: a lease request that was answered 200 has written its response body
\* exactly once.
C28_BodyWrittenOnce ==
  \A c \in Clients : Leased(c) => resp[c].writes = 1

\* C29 (No orphan messages): when no request is in flight, the queue id of
\* every stored message is the id of a stored queue and its project id the id
\* of a stored project.
C29_NoOrphanMessages ==
  (\A c \in Clients : pc[c] \in {"idle", "done"}) =>
    \A m \in messages :
      /\ \E q \in queues : q.id = m.queue
      /\ \E p \in projects : p.id = m.project

Ids(S) == {m.id : m \in S}

NextIdBelongs(c) ==
  /\ pc[c] = "del_load" /\ req[c].form = "ok" /\ loc[c].i < Len(req[c].ids)
  /\ \E m \in WithId(messages, req[c].ids[loc[c].i + 1]) : m.queue = loc[c].q.id

\* C31 (DeleteMessages never consults lease state): whenever the next id of a
\* delete request names a stored message of the queue - never leased, under
\* an active lease or with an expired one - the load step can pass it on to
\* the removal, and the removal step can take it out of the store; a load
\* passes on only a stored message of the queue, and a removal that changes
\* the store takes out exactly the loaded message.
C31_DeleteIgnoresLease ==
  /\ [](\A c \in Clients :
          /\ NextIdBelongs(c) =>
               ENABLED (DeleteLoad(c) /\ pc'[c] = "del_destroy")
          /\ (pc[c] = "del_destroy" /\ WithId(messages, loc[c].m.id) # {}) =>
               ENABLED (DeleteDestroy(c) /\ WithId(messages', loc[c].m.id) = {}))
  /\ [][\A c \in Clients :
          /\ (pc[c] = "del_load" /\ pc'[c] = "del_destroy") =>
               /\ NextIdBelongs(c)
               /\ loc'[c].m \in WithId(messages, req[c].ids[loc[c].i + 1])
          /\ (pc[c] = "del_destroy" /\ pc'[c] # pc[c] /\ messages' # messages) =>
               messages' = messages \ WithId(messages, loc[c].m.id)]_vars

\* C31 witness: c1's lease on message 3 ran out at 10, c2 holds the lease
\* that runs until 30, and at time 20 the delete request of c3 was answered
\* 204 with the message gone
C31_Witness ==
  /\ clock = 20
  /\ Leased("c1") /\ Len(resp["c1"].body) = 1
  /\ resp["c1"].body[1].id = 3 /\ resp["c1"].body[1].leaseExpiresAt = 10
  /\ Leased("c2") /\ Len(resp["c2"].body) = 1
  /\ resp["c2"].body[1].id = 3 /\ resp["c2"].body[1].leaseExpiresAt = 30
  /\ Acked("c3", 3)
  /\ WithId(messages, 3) = {}

====
